---- MODULE Spec2Model ----
(***************************************************************************)
(* State-machine model of the two decorative iris components:              *)
(*   "BG"   = src/src/components/ThreeIrisBG.jsx  (ThreeIrisBG)            *)
(*   "Iris" = src/unnamed/part_000                 (ThreeIris)              *)
(*                                                                         *)
(* Numbers are exact rationals carried as scaled integers (IEEE rounding   *)
(* of the JavaScript doubles is not modelled):                             *)
(*   time, dt            milliseconds                                      *)
(*   rotation z          1e-5 rad   (ms * hundredths of rad/s)             *)
(*   pointer x / y       numerator over ViewW / ViewH                      *)
(*   lens rotation x     1 / (100 * ViewH * Scale) rad                     *)
(*   lens rotation y     1 / (100 * ViewW * Scale) rad                     *)
(*   ring radius         1e-2, trig values 1e-6, ring point x / y 1e-8     *)
(***************************************************************************)
EXTENDS Integers, Sequences, FiniteSets, TLC

\* ---------------------------------------------------------------- bounds
MaxFrames == 3
MaxMoves == 2
MaxMounts == 2
ViewW == 3
ViewH == 2

Inst == {1, 2}
Comps == {"BG", "Iris"}
DtSet == {0, 16}
PairDts == {16}
ClientXs == {0, 1, ViewW}
ClientYs == {0, ViewH}
Events == [cx : ClientXs, cy : ClientYs]
PairEvents == {[cx |-> ViewW, cy |-> 0], [cx |-> 0, cy |-> ViewH]}
Envs == [hasMatchMedia : BOOLEAN, matches : BOOLEAN]

\* ------------------------------------------------------ program constants
RingRate == 3
LensRate == 10
TiltGain == 12
SmoothNum == 3
SmoothDen == 40
ringCount == 3
steps == 180
BaseRadius == 90
RadiusStep == 22
Depth == 0 - 20

\* common denominator that keeps MaxFrames smoothing steps exact
Scale == SmoothDen ^ MaxFrames

VARIABLES
  mounted, comp, reduceMotion, pointer, ringRot, lensRot, irisMat, uTime,
  listeners, invalidated,
  sumDt, frames, held, seen, nFrames, nMoves, nMounts,
  ringPc, ringI, ringJ, ringR, pts, arr, rings

compVars == <<mounted, comp, reduceMotion, pointer, ringRot, lensRot, irisMat,
              uTime, listeners, invalidated>>
histVars == <<sumDt, frames, held, seen, nFrames, nMoves, nMounts>>
ringVars == <<ringPc, ringI, ringJ, ringR, pts, arr, rings>>
vars == <<compVars, histVars, ringVars>>

\* the module-level IrisMaterial object of ThreeIris.jsx
IrisMaterial == 0
Mats == {IrisMaterial} \cup Inst
ZeroRot == [x |-> 0, y |-> 0, z |-> 0]
NoEvent == [cx |-> 0 - 1, cy |-> 0 - 1]

\* ------------------------------------------------------- pure operations

\* window.matchMedia?.(q).matches || false   (window exists whenever mounted)
useReducedMotionBG(env) ==
  IF env.hasMatchMedia THEN env.matches ELSE FALSE

\* !!(window && window.matchMedia && window.matchMedia(q).matches)
useReducedMotionIris(env) ==
  env.hasMatchMedia /\ env.matches

\* nx = (clientX / innerWidth) * 2 - 1, as a numerator over ViewW
NormX(cx) == 2 * cx - ViewW
\* ny = (clientY / innerHeight) * 2 - 1, as a numerator over ViewH
NormY(cy) == 2 * cy - ViewH

\* slip: the two axes stored the wrong way round
onMove_Swapped(cx, cy) == [x |-> NormY(cy), y |-> NormX(cx)]

\* the listener body: ref.current.x = nx; ref.current.y = ny
onMove(cx, cy) == [x |-> NormX(cx), y |-> NormY(cy)]

\* slip: the rotation is set to the target at once
SmoothBG_Snap(rot, target) == target
\* slip: smoothing factor 0.1 instead of 0.075
SmoothIris_Fast(rot, target) == rot + ((target - rot) * (SmoothNum + 1)) \div SmoothDen

\* rotation += (target - rotation) * 0.075
SmoothBG(rot, target) == rot + ((target - rot) * SmoothNum) \div SmoothDen
SmoothIris(rot, target) == rot + ((target - rot) * SmoothNum) \div SmoothDen

\* slip: the ring rotation ignores the reduced-motion preference
NeuralRingsFrameBG_Ungated(rot, rm, attached, dt) ==
  IF attached THEN [rot EXCEPT !.z = @ + dt * RingRate] ELSE rot

\* NeuralRings.useFrame, ThreeIrisBG.jsx
NeuralRingsFrameBG(rot, rm, attached, dt) ==
  IF ~rm /\ attached THEN [rot EXCEPT !.z = @ + dt * RingRate] ELSE rot

\* slip: the ring assembly turns about x instead of z
NeuralRingsFrameIris_Tilt(rot, rm, attached, dt) ==
  IF rm THEN rot
  ELSE IF attached THEN [rot EXCEPT !.x = @ + dt * RingRate] ELSE rot

\* NeuralRings.useFrame, ThreeIris.jsx
NeuralRingsFrameIris(rot, rm, attached, dt) ==
  IF rm THEN rot
  ELSE IF attached THEN [rot EXCEPT !.z = @ + dt * RingRate] ELSE rot

\* variation: the pointer smoothing is suppressed with the other motion
IrisLensFrameBG_Gated(time, rot, rm, attached, p, dt) ==
  LET t1 == IF ~rm THEN time + dt ELSE time
      r1 == IF ~rm /\ attached THEN [rot EXCEPT !.z = @ + dt * LensRate] ELSE rot
      targetX == p.y * TiltGain * Scale
      targetY == p.x * TiltGain * Scale
      r2 == IF ~rm /\ attached
              THEN [r1 EXCEPT !.x = SmoothBG(@, targetX), !.y = SmoothBG(@, targetY)]
              ELSE r1
  IN [time |-> t1, rot |-> r2]

\* IrisLens.useFrame, ThreeIrisBG.jsx; p is pointerRef.current, whose x and y
\* are always numbers here, so (p.y || 0) is p.y
IrisLensFrameBG(time, rot, rm, attached, p, dt) ==
  LET t1 == IF ~rm THEN time + dt ELSE time
      r1 == IF ~rm /\ attached THEN [rot EXCEPT !.z = @ + dt * LensRate] ELSE rot
      targetX == p.y * TiltGain * Scale
      targetY == p.x * TiltGain * Scale
      r2 == IF attached
              THEN [r1 EXCEPT !.x = SmoothBG(@, targetX), !.y = SmoothBG(@, targetY)]
              ELSE r1
  IN [time |-> t1, rot |-> r2]

\* slip: the lens turns at the ring assembly's rate
IrisLensFrameIris_RingRate(time, rot, rm, attached, p, dt) ==
  LET t1 == IF ~rm THEN time + dt ELSE time
      r1 == IF ~rm /\ attached THEN [rot EXCEPT !.z = @ + dt * RingRate] ELSE rot
      targetX == p.y * TiltGain * Scale
      targetY == p.x * TiltGain * Scale
      r2 == IF attached
              THEN [r1 EXCEPT !.x = SmoothIris(@, targetX), !.y = SmoothIris(@, targetY)]
              ELSE r1
  IN [time |-> t1, rot |-> r2]

\* IrisLens.useFrame, ThreeIris.jsx; p is state.pointer
IrisLensFrameIris(time, rot, rm, attached, p, dt) ==
  LET t1 == IF ~rm THEN time + dt ELSE time
      r1 == IF ~rm /\ attached THEN [rot EXCEPT !.z = @ + dt * LensRate] ELSE rot
      targetX == p.y * TiltGain * Scale
      targetY == p.x * TiltGain * Scale
      r2 == IF attached
              THEN [r1 EXCEPT !.x = SmoothIris(@, targetX), !.y = SmoothIris(@, targetY)]
              ELSE r1
  IN [time |-> t1, rot |-> r2]

\* makeIrisMaterial(): a fresh material object owned by the instance
makeIrisMaterial(i) == i
\* slip: the module-level material is used without cloning
IrisMaterialShared(i) == IrisMaterial
\* IrisMaterial.clone(): a fresh material object with cloned uniforms
IrisMaterialClone(i) == i

\* <Canvas frameloop={reduceMotion ? "demand" : "always"}> / default "always"
frameloop(c, rm) == IF c = "BG" /\ rm THEN "demand" ELSE "always"

\* shader.time of instance i
ShaderTime(i) == uTime[irisMat[i]]

\* Math.cos / Math.sin at t = (j / steps) * 2 * PI, j = 0 .. steps, in 1e-6
CosTab ==
  <<
     1000000, 999391, 997564, 994522, 990268, 984808, 978148, 970296, 961262, 951057,
     939693, 927184, 913545, 898794, 882948, 866025, 848048, 829038, 809017, 788011,
     766044, 743145, 719340, 694658, 669131, 642788, 615661, 587785, 559193, 529919,
     500000, 469472, 438371, 406737, 374607, 342020, 309017, 275637, 241922, 207912,
     173648, 139173, 104528, 69756, 34899, 0, -34899, -69756, -104528, -139173,
     -173648, -207912, -241922, -275637, -309017, -342020, -374607, -406737, -438371, -469472,
     -500000, -529919, -559193, -587785, -615661, -642788, -669131, -694658, -719340, -743145,
     -766044, -788011, -809017, -829038, -848048, -866025, -882948, -898794, -913545, -927184,
     -939693, -951057, -961262, -970296, -978148, -984808, -990268, -994522, -997564, -999391,
     -1000000, -999391, -997564, -994522, -990268, -984808, -978148, -970296, -961262, -951057,
     -939693, -927184, -913545, -898794, -882948, -866025, -848048, -829038, -809017, -788011,
     -766044, -743145, -719340, -694658, -669131, -642788, -615661, -587785, -559193, -529919,
     -500000, -469472, -438371, -406737, -374607, -342020, -309017, -275637, -241922, -207912,
     -173648, -139173, -104528, -69756, -34899, 0, 34899, 69756, 104528, 139173,
     173648, 207912, 241922, 275637, 309017, 342020, 374607, 406737, 438371, 469472,
     500000, 529919, 559193, 587785, 615661, 642788, 669131, 694658, 719340, 743145,
     766044, 788011, 809017, 829038, 848048, 866025, 882948, 898794, 913545, 927184,
     939693, 951057, 961262, 970296, 978148, 984808, 990268, 994522, 997564, 999391,
     1000000
  >>

SinTab ==
  <<
     0, 34899, 69756, 104528, 139173, 173648, 207912, 241922, 275637, 309017,
     342020, 374607, 406737, 438371, 469472, 500000, 529919, 559193, 587785, 615661,
     642788, 669131, 694658, 719340, 743145, 766044, 788011, 809017, 829038, 848048,
     866025, 882948, 898794, 913545, 927184, 939693, 951057, 961262, 970296, 978148,
     984808, 990268, 994522, 997564, 999391, 1000000, 999391, 997564, 994522, 990268,
     984808, 978148, 970296, 961262, 951057, 939693, 927184, 913545, 898794, 882948,
     866025, 848048, 829038, 809017, 788011, 766044, 743145, 719340, 694658, 669131,
     642788, 615661, 587785, 559193, 529919, 500000, 469472, 438371, 406737, 374607,
     342020, 309017, 275637, 241922, 207912, 173648, 139173, 104528, 69756, 34899,
     0, -34899, -69756, -104528, -139173, -173648, -207912, -241922, -275637, -309017,
     -342020, -374607, -406737, -438371, -469472, -500000, -529919, -559193, -587785, -615661,
     -642788, -669131, -694658, -719340, -743145, -766044, -788011, -809017, -829038, -848048,
     -866025, -882948, -898794, -913545, -927184, -939693, -951057, -961262, -970296, -978148,
     -984808, -990268, -994522, -997564, -999391, -1000000, -999391, -997564, -994522, -990268,
     -984808, -978148, -970296, -961262, -951057, -939693, -927184, -913545, -898794, -882948,
     -866025, -848048, -829038, -809017, -788011, -766044, -743145, -719340, -694658, -669131,
     -642788, -615661, -587785, -559193, -529919, -500000, -469472, -438371, -406737, -374607,
     -342020, -309017, -275637, -241922, -207912, -173648, -139173, -104528, -69756, -34899,
     0
  >>

Cos(j) == CosTab[j + 1]
Sin(j) == SinTab[j + 1]

\* new THREE.Vector3(x, y, z)
Vector3(x, y, z) == [x |-> x, y |-> y, z |-> z]

\* slip: the loop stops one point short
RingLoopCond_Strict(j) == j < steps
\* the inner loop's condition: j <= steps
RingLoopCond(j) == j <= steps

\* ------------------------------------------------------------------ Init
Init ==
  /\ mounted = [i \in Inst |-> FALSE]
  /\ comp = [i \in Inst |-> "BG"]
  /\ reduceMotion = [i \in Inst |-> FALSE]
  /\ pointer = [i \in Inst |-> [x |-> 0, y |-> 0]]
  /\ ringRot = [i \in Inst |-> ZeroRot]
  /\ lensRot = [i \in Inst |-> ZeroRot]
  /\ irisMat = [i \in Inst |-> i]
  /\ uTime = [m \in Mats |-> 0]
  /\ listeners = [i \in Inst |-> 0]
  /\ invalidated = [i \in Inst |-> FALSE]
  /\ sumDt = [i \in Inst |-> 0]
  /\ frames = [i \in Inst |-> 0]
  /\ held = [i \in Inst |-> 0]
  /\ seen = [i \in Inst |-> NoEvent]
  /\ nFrames = 0
  /\ nMoves = 0
  /\ nMounts = 0
  /\ ringPc = "idle"
  /\ ringI = 0
  /\ ringJ = 0
  /\ ringR = 0
  /\ pts = <<>>
  /\ arr = <<>>
  /\ rings = <<>>

\* --------------------------------------------------------------- actions

\* The component is mounted: refs and materials are created, the group refs
\* are attached, the effect of useViewportPointer registers the listener.
Mount(i, c, env) ==
  /\ ~mounted[i]
  /\ \A k \in Inst : k < i => mounted[k]
  /\ nMounts < MaxMounts
  /\ mounted' = [mounted EXCEPT ![i] = TRUE]
  /\ comp' = [comp EXCEPT ![i] = c]
  /\ reduceMotion' = [reduceMotion EXCEPT ![i] =
       IF c = "BG" THEN useReducedMotionBG(env) ELSE useReducedMotionIris(env)]
  /\ pointer' = [pointer EXCEPT ![i] = [x |-> 0, y |-> 0]]
  /\ ringRot' = [ringRot EXCEPT ![i] = ZeroRot]
  /\ lensRot' = [lensRot EXCEPT ![i] = ZeroRot]
  /\ LET m == IF c = "BG" THEN makeIrisMaterial(i) ELSE IrisMaterialClone(i)
     IN /\ irisMat' = [irisMat EXCEPT ![i] = m]
        /\ uTime' = [uTime EXCEPT ![m] = IF c = "BG" THEN 0 ELSE uTime[IrisMaterial]]
  /\ listeners' = [listeners EXCEPT ![i] = IF c = "BG" THEN @ + 1 ELSE @]
  /\ invalidated' = [invalidated EXCEPT ![i] = TRUE]
  /\ sumDt' = [sumDt EXCEPT ![i] = 0]
  /\ frames' = [frames EXCEPT ![i] = 0]
  /\ held' = [held EXCEPT ![i] = 0]
  /\ seen' = [seen EXCEPT ![i] = NoEvent]
  /\ nMounts' = nMounts + 1
  /\ UNCHANGED <<nFrames, nMoves, ringVars>>

\* slip: the effect returns no cleanup, the listener stays registered
UnmountLeaky(i) ==
  /\ mounted[i]
  /\ mounted' = [mounted EXCEPT ![i] = FALSE]
  /\ invalidated' = [invalidated EXCEPT ![i] = FALSE]
  /\ UNCHANGED <<comp, reduceMotion, pointer, ringRot, lensRot, irisMat, uTime, listeners>>
  /\ UNCHANGED <<sumDt, frames, held, seen, nFrames, nMoves, nMounts, ringVars>>

\* The component is unmounted: the effect cleanup removes the listener and
\* the group refs are detached.
Unmount(i) ==
  /\ mounted[i]
  /\ mounted' = [mounted EXCEPT ![i] = FALSE]
  /\ listeners' = [listeners EXCEPT ![i] = IF comp[i] = "BG" THEN @ - 1 ELSE @]
  /\ invalidated' = [invalidated EXCEPT ![i] = FALSE]
  /\ UNCHANGED <<comp, reduceMotion, pointer, ringRot, lensRot, irisMat, uTime>>
  /\ UNCHANGED <<sumDt, frames, held, seen, nFrames, nMoves, nMounts, ringVars>>

\* A mousemove event on the window: every registered onMove closure runs.
PointerMove(cx, cy) ==
  /\ nMoves < MaxMoves
  /\ pointer' = [i \in Inst |-> IF listeners[i] > 0 THEN onMove(cx, cy) ELSE pointer[i]]
  /\ held' = [i \in Inst |-> IF listeners[i] > 0 THEN 0 ELSE held[i]]
  /\ seen' = [i \in Inst |->
       IF mounted[i] /\ comp[i] = "BG" THEN [cx |-> cx, cy |-> cy] ELSE seen[i]]
  /\ nMoves' = nMoves + 1
  /\ UNCHANGED <<mounted, comp, reduceMotion, ringRot, lensRot, irisMat, uTime,
                 listeners, invalidated>>
  /\ UNCHANGED <<sumDt, frames, nFrames, nMounts, ringVars>>

\* The host engine updates state.pointer of a ThreeIris canvas.
CanvasPointer(i, px, py) ==
  /\ mounted[i]
  /\ comp[i] = "Iris"
  /\ nMoves < MaxMoves
  /\ pointer' = [pointer EXCEPT ![i] = [x |-> px, y |-> py]]
  /\ held' = [held EXCEPT ![i] = 0]
  /\ nMoves' = nMoves + 1
  /\ UNCHANGED <<mounted, comp, reduceMotion, ringRot, lensRot, irisMat, uTime,
                 listeners, invalidated>>
  /\ UNCHANGED <<sumDt, frames, seen, nFrames, nMounts, ringVars>>

\* With frameloop "demand" the host renders a frame only when asked to.
Invalidate(i) ==
  /\ mounted[i]
  /\ frameloop(comp[i], reduceMotion[i]) = "demand"
  /\ ~invalidated[i]
  /\ invalidated' = [invalidated EXCEPT ![i] = TRUE]
  /\ UNCHANGED <<mounted, comp, reduceMotion, pointer, ringRot, lensRot, irisMat,
                 uTime, listeners>>
  /\ UNCHANGED <<sumDt, frames, held, seen, nFrames, nMoves, nMounts, ringVars>>

\* One rendered frame of instance i: the host calls both useFrame callbacks.
Frame(i, dt) ==
  /\ mounted[i]
  /\ nFrames < MaxFrames
  /\ frameloop(comp[i], reduceMotion[i]) = "always" \/ invalidated[i]
  /\ ringRot' = [ringRot EXCEPT ![i] =
       IF comp[i] = "BG"
         THEN NeuralRingsFrameBG(@, reduceMotion[i], mounted[i], dt)
         ELSE NeuralRingsFrameIris(@, reduceMotion[i], mounted[i], dt)]
  /\ LET m == irisMat[i]
         r == IF comp[i] = "BG"
                THEN IrisLensFrameBG(uTime[m], lensRot[i], reduceMotion[i],
                                     mounted[i], pointer[i], dt)
                ELSE IrisLensFrameIris(uTime[m], lensRot[i], reduceMotion[i],
                                       mounted[i], pointer[i], dt)
     IN /\ uTime' = [uTime EXCEPT ![m] = r.time]
        /\ lensRot' = [lensRot EXCEPT ![i] = r.rot]
  /\ invalidated' = [invalidated EXCEPT ![i] = FALSE]
  /\ sumDt' = [sumDt EXCEPT ![i] = @ + dt]
  /\ frames' = [frames EXCEPT ![i] = @ + 1]
  /\ held' = [held EXCEPT ![i] = @ + 1]
  /\ nFrames' = nFrames + 1
  /\ UNCHANGED <<mounted, comp, reduceMotion, pointer, irisMat, listeners>>
  /\ UNCHANGED <<seen, nMoves, nMounts, ringVars>>

\* --------------------------- the useMemo factory of NeuralRings, by steps

\* const arr = []; i = 0
RingsBegin ==
  /\ ringPc = "idle"
  /\ arr' = <<>>
  /\ ringI' = 0
  /\ ringPc' = "outer"
  /\ UNCHANGED <<ringJ, ringR, pts, rings, compVars, histVars>>

\* for (i < ringCount): R = 0.9 + i * 0.22; pts = []; j = 0   /   return arr
RingOuter ==
  /\ ringPc = "outer"
  /\ IF ringI < ringCount
       THEN /\ ringR' = BaseRadius + ringI * RadiusStep
            /\ pts' = <<>>
            /\ ringJ' = 0
            /\ ringPc' = "inner"
            /\ UNCHANGED rings
       ELSE /\ rings' = arr
            /\ ringPc' = "done"
            /\ UNCHANGED <<ringR, pts, ringJ>>
  /\ UNCHANGED <<ringI, arr, compVars, histVars>>

\* for (j <= steps): pts.push(Vector3(cos t * R, sin t * R, -0.2))
\* after the loop: arr.push({ radius: R, points: pts }); i++
RingInner ==
  /\ ringPc = "inner"
  /\ IF RingLoopCond(ringJ)
       THEN /\ pts' = Append(pts, Vector3(Cos(ringJ) * ringR, Sin(ringJ) * ringR, Depth))
            /\ ringJ' = ringJ + 1
            /\ UNCHANGED <<arr, ringI, ringPc>>
       ELSE /\ arr' = Append(arr, [radius |-> ringR, points |-> pts])
            /\ ringI' = ringI + 1
            /\ ringPc' = "outer"
            /\ UNCHANGED <<pts, ringJ>>
  /\ UNCHANGED <<ringR, rings, compVars, histVars>>

\* all steps of the instances in I, with frame times from D and pointer
\* events (client coordinates) from E
Steps(I, D, E) ==
  \/ \E i \in I, c \in Comps, env \in Envs : Mount(i, c, env)
  \/ \E i \in I : Unmount(i)
  \/ \E e \in E : PointerMove(e.cx, e.cy)
  \/ \E i \in I, e \in E : CanvasPointer(i, NormX(e.cx), NormY(e.cy))
  \/ \E i \in I : Invalidate(i)
  \/ \E i \in I, dt \in D : Frame(i, dt)

\* one mounted instance at a time
Next == Steps({1}, DtSet, Events)
Spec == Init /\ [][Next]_vars

\* two instances side by side
NextPair == Steps(Inst, PairDts, PairEvents)
SpecPair == Init /\ [][NextPair]_vars

\* one instance with its render phase (the ring builder) run step by step,
\* then mounted and driven by frames
NextRings ==
  \/ RingsBegin
  \/ RingOuter
  \/ RingInner
  \/ ringPc = "done" /\ \E c \in Comps, env \in Envs : Mount(1, c, env)
  \/ ringPc = "done" /\ \E dt \in DtSet : Frame(1, dt)
SpecRings == Init /\ [][NextRings]_vars

\* every smoothing step divides exactly
ExactArithmetic ==
  \A i \in Inst :
    /\ lensRot[i].x % (SmoothDen ^ (MaxFrames - nFrames)) = 0
    /\ lensRot[i].y % (SmoothDen ^ (MaxFrames - nFrames)) = 0

\* ------------------------------------------------------ step recognisers
FrameStep(i) == frames'[i] = frames[i] + 1
StepDt(i) == sumDt'[i] - sumDt[i]
MoveStep == nMoves' = nMoves + 1
MountStep(i) == ~mounted[i] /\ mounted'[i]

\* ---------------------------------------------------------------- claims

\* C1: with the reduced-motion preference set, shader.time, the ring
\* assembly's rotationZ and the lens assembly's rotationZ keep their initial
\* value 0 whatever frames and pointer events have happened, in both variants.
C1_MotionDisabledFrozen ==
  \A i \in Inst :
    reduceMotion[i] =>
      /\ ShaderTime(i) = 0
      /\ ringRot[i].z = 0
      /\ lensRot[i].z = 0

\* frames with a positive elapsed time and a pointer event have happened
\* under reduced motion
C1_Witness ==
  /\ mounted[1] /\ reduceMotion[1]
  /\ frames[1] >= 2 /\ sumDt[1] >= 32
  /\ nMoves >= 1 /\ pointer[1].y # 0

\* C2: with motion enabled every frame adds dt to shader.time, 0.03 * dt to
\* the ring rotationZ and 0.1 * dt to the lens rotationZ; shader.time never
\* decreases, and the three values are the sum of dt, 0.03 times and 0.1
\* times that sum (rotationZ is in 1e-5 rad, time in ms).
C2_Sums ==
  \A i \in Inst :
    ~reduceMotion[i] =>
      /\ ShaderTime(i) = sumDt[i]
      /\ ringRot[i].z = 3 * sumDt[i]
      /\ lensRot[i].z = 10 * sumDt[i]

C2_Step ==
  \A i \in Inst :
    (FrameStep(i) /\ ~reduceMotion[i]) =>
      /\ uTime'[irisMat'[i]] = ShaderTime(i) + StepDt(i)
      /\ uTime'[irisMat'[i]] >= ShaderTime(i)
      /\ ringRot'[i].z = ringRot[i].z + 3 * StepDt(i)
      /\ lensRot'[i].z = lensRot[i].z + 10 * StepDt(i)

C2_MotionAdvances == []C2_Sums /\ [][C2_Step]_vars

\* three frames with motion enabled, 32 ms in all
C2_Witness ==
  /\ mounted[1] /\ ~reduceMotion[1]
  /\ frames[1] = 3 /\ sumDt[1] = 32
  /\ ShaderTime(1) = 32 /\ ringRot[1].z = 96 /\ lensRot[1].z = 320

\* the two variants side by side: the same reduced-motion preference, the
\* same non-zero pointer sample set before the first and only frame of each
SideBySide(i, j) ==
  /\ mounted[i] /\ comp[i] = "BG" /\ reduceMotion[i]
  /\ mounted[j] /\ comp[j] = "Iris" /\ reduceMotion[j]
  /\ pointer[i] = pointer[j]
  /\ pointer[i].x # 0 \/ pointer[i].y # 0
  /\ frames[i] = 1 /\ held[i] = 1
  /\ frames[j] = 1 /\ held[j] = 1

LensUntilted(i) == lensRot[i].x = 0 /\ lensRot[i].y = 0

\* C3 as stated: with the preference set and the same non-zero pointer
\* sample, exactly one of the two variants leaves lens rotationX/rotationY
\* unchanged by a frame.
C3_Original ==
  \A i, j \in Inst :
    SideBySide(i, j) => (LensUntilted(i) # LensUntilted(j))

\* C3 amended: both variants apply the pointer smoothing on every frame
\* whatever the preference; side by side neither leaves lens
\* rotationX/rotationY unchanged and both reach the same rotation.
C3_BothFollow ==
  \A i, j \in Inst :
    SideBySide(i, j) =>
      /\ ~LensUntilted(i)
      /\ ~LensUntilted(j)
      /\ lensRot[i].x = lensRot[j].x
      /\ lensRot[i].y = lensRot[j].y

C3_Witness == \E i, j \in Inst : SideBySide(i, j)

\* C4: a frame moves lens rotationX toward the target pointer.y * 0.12
\* without reaching or passing it: the remaining distance is multiplied by
\* 0.925 = 37/40, so rotationX moves strictly toward the target and stays
\* strictly on its side of it; the same for rotationY and pointer.x.  From
\* rotationX = 0 with pointer.y = 1 held, rotationX stays strictly between 0
\* and 0.12.
Approaches(old, new, target) ==
  LET d == target - old
  IN /\ d % 40 = 0
     /\ target - new = 37 * (d \div 40)
     /\ d > 0 => (old < new /\ new < target)
     /\ d < 0 => (target < new /\ new < old)
     /\ d = 0 => new = old

C4_Step ==
  \A i \in Inst :
    FrameStep(i) =>
      /\ Approaches(lensRot[i].x, lensRot'[i].x, pointer[i].y * 12 * Scale)
      /\ Approaches(lensRot[i].y, lensRot'[i].y, pointer[i].x * 12 * Scale)

C4_FromZero ==
  \A i \in Inst :
    (frames[i] >= 1 /\ held[i] = frames[i] /\ pointer[i].y = ViewH) =>
      (0 < lensRot[i].x /\ lensRot[i].x < 12 * ViewH * Scale)

C5_LatestSample ==
  \A i \in Inst :
    (mounted[i] /\ comp[i] = "BG") =>
      /\ seen[i] = NoEvent => (pointer[i].x = 0 /\ pointer[i].y = 0)
      /\ seen[i] # NoEvent =>
           /\ pointer[i].x + ViewW = 2 * seen[i].cx
           /\ pointer[i].y + ViewH = 2 * seen[i].cy
           /\ (seen[i].cx = 0 /\ seen[i].cy = 0) =>
                (pointer[i].x = 0 - ViewW /\ pointer[i].y = 0 - ViewH)
           /\ (seen[i].cx = ViewW /\ seen[i].cy = ViewH) =>
                (pointer[i].x = ViewW /\ pointer[i].y = ViewH)
           /\ 0 - ViewW <= pointer[i].x /\ pointer[i].x <= ViewW
           /\ 0 - ViewH <= pointer[i].y /\ pointer[i].y <= ViewH

\* a second event at (W,H) has overwritten the first
C5_Witness ==
  /\ mounted[1] /\ comp[1] = "BG"
  /\ nMoves = 2
  /\ seen[1] = [cx |-> ViewW, cy |-> ViewH]
  /\ pointer[1] = [x |-> ViewW, y |-> ViewH]

\* C6: the pointer-move listener is registered on mount and removed on
\* unmount: an unmounted instance has no listener on the window and a
\* pointer-move event leaves its PointerSample alone; the number of registered
\* listeners is the number of mounted instances of the viewport-pointer
\* component.
MountedBG == {i \in Inst : mounted[i] /\ comp[i] = "BG"}

RECURSIVE SumListeners(_)
SumListeners(S) ==
  IF S = {} THEN 0
  ELSE LET k == CHOOSE k \in S : TRUE
       IN listeners[k] + SumListeners(S \ {k})

C6_Registered ==
  /\ \A i \in Inst : ~mounted[i] => listeners[i] = 0
  /\ \A i \in MountedBG : listeners[i] = 1
  /\ SumListeners(Inst) = Cardinality(MountedBG)

C6_Step ==
  MoveStep => \A i \in Inst : ~mounted[i] => pointer'[i] = pointer[i]

C6_ListenerLifecycle == []C6_Registered /\ [][C6_Step]_vars

\* instance 1 was unmounted before the event that instance 2 has received
C6_Witness ==
  /\ ~mounted[1] /\ comp[1] = "BG" /\ listeners[1] = 0
  /\ mounted[2] /\ comp[2] = "BG"
  /\ pointer[1].x # 0
  /\ pointer[2].x # 0
  /\ pointer[1] # pointer[2]

\* C7: with two instances mounted, a frame of one changes neither the other's
\* shader.time nor its rotations, in both variants; the time of the
\* module-level IrisMaterial is never advanced.
C7_Step ==
  \A i, j \in Inst :
    (FrameStep(i) /\ j # i) =>
      /\ uTime'[irisMat'[j]] = ShaderTime(j)
      /\ ringRot'[j] = ringRot[j]
      /\ lensRot'[j] = lensRot[j]

C7_OwnState == [](uTime[IrisMaterial] = 0) /\ [][C7_Step]_vars

\* two mounted instances of the cloning variant, driven differently
C7_Witness ==
  /\ mounted[1] /\ comp[1] = "Iris" /\ ~reduceMotion[1]
  /\ mounted[2] /\ comp[2] = "Iris" /\ ~reduceMotion[2]
  /\ frames[1] = 2 /\ frames[2] = 1
  /\ ShaderTime(1) = 32 /\ ShaderTime(2) = 16

\* 40^n - 37^n over 40^n is 1 - 0.925^n
Pow(b, n) == b ^ n

\* the end-to-end scenario: motion enabled, three frames of 16 ms, pointer
\* held at (1,-1) since before the first frame
Scenario(i) ==
  /\ mounted[i] /\ ~reduceMotion[i]
  /\ frames[i] = 3 /\ held[i] = 3 /\ sumDt[i] = 48
  /\ pointer[i] = [x |-> ViewW, y |-> 0 - ViewH]

\* lens rotationX in micro-radians, rounded down
RotXMicro(i) == (lensRot[i].x * 10) \div (ViewH * (Scale \div 1000))

\* C8 as stated: in the scenario shader.time is 0.048, lens rotationZ is
\* 0.0048 and lens rotationX is -0.02505 to five decimals.
C8_Original ==
  \A i \in Inst :
    Scenario(i) =>
      /\ ShaderTime(i) = 48
      /\ lensRot[i].z = 480
      /\ 0 - 25055 <= RotXMicro(i) /\ RotXMicro(i) <= 0 - 25045

\* C8 amended: with motion enabled, rotationX initially 0 and the pointer
\* fixed, after n frames rotationX = target * (1 - 0.925^n) with
\* target = pointer.y * 0.12, whatever the dt values; in the scenario
\* shader.time is 0.048, lens rotationZ is 0.0048 and rotationX is about
\* -0.02503 (exactly -0.025025625, factor 0.2085).
C8_ClosedForm ==
  \A i \in Inst :
    /\ (~reduceMotion[i] /\ held[i] = frames[i]) =>
         lensRot[i].x =
           pointer[i].y * 12 * (Scale \div Pow(40, frames[i]))
             * (Pow(40, frames[i]) - Pow(37, frames[i]))
    /\ Scenario(i) =>
         /\ ShaderTime(i) = 48
         /\ lensRot[i].z = 480
         /\ 0 - 25026 <= RotXMicro(i) /\ RotXMicro(i) <= 0 - 25025

C8_Witness == Scenario(1) /\ lensRot[1].x < 0

\* C9: the builder returns 3 rings of radius 0.90, 1.12, 1.34; each has 181
\* points, all at depth -0.2 and at the ring's radius from the origin, the
\* first equal to the last; the result is the same whenever it is built and
\* frames never change it.  (Coordinates at the resolution 1e-8 of the model.)
RingPoint(k, j) ==
  Vector3(Cos(j) * (90 + 22 * k), Sin(j) * (90 + 22 * k), 0 - 20)

RingsExpected ==
  [k \in 1 .. 3 |->
     [radius |-> 90 + 22 * (k - 1),
      points |-> [j \in 1 .. 181 |-> RingPoint(k - 1, j - 1)]]]

\* x^2 + y^2 = R^2 within one part in a thousand, in units of 1e-4
AtRadius(p, R) ==
  LET x == p.x \div 10000
      y == p.y \div 10000
      d == x * x + y * y - (R * 100) * (R * 100)
  IN (IF d < 0 THEN 0 - d ELSE d) <= ((R * 100) * (R * 100)) \div 1000

C9_Rings ==
  ringPc = "done" =>
    /\ Len(rings) = 3
    /\ rings[1].radius = 90 /\ rings[2].radius = 112 /\ rings[3].radius = 134
    /\ \A k \in 1 .. Len(rings) :
         /\ Len(rings[k].points) = 181
         /\ rings[k].points[1] = rings[k].points[181]
         /\ \A j \in 1 .. Len(rings[k].points) :
              /\ rings[k].points[j].z = 0 - 20
              /\ AtRadius(rings[k].points[j], rings[k].radius)
    /\ rings = RingsExpected

\* the rings are built and a frame has rotated the ring assembly since
C9_Witness ==
  /\ ringPc = "done" /\ Len(rings) = 3
  /\ mounted[1] /\ frames[1] >= 1 /\ ringRot[1].z > 0

\* C10: one writer each: a frame leaves every PointerSample alone; a pointer
\* event leaves shader.time and all rotations alone; a PointerSample changes
\* only in a pointer event (or at creation), shader.time and the rotations
\* only in a frame of their instance (or at creation); the ring assembly's
\* rotationX and rotationY never change.
C10_Step ==
  /\ (\E i \in Inst : FrameStep(i)) => pointer' = pointer
  /\ MoveStep => (uTime' = uTime /\ ringRot' = ringRot /\ lensRot' = lensRot)
  /\ \A i \in Inst :
       /\ pointer'[i] # pointer[i] => (MoveStep \/ MountStep(i))
       /\ (\/ uTime'[irisMat'[i]] # ShaderTime(i)
           \/ ringRot'[i] # ringRot[i]
           \/ lensRot'[i] # lensRot[i]) => (FrameStep(i) \/ MountStep(i))

C10_RingAxis == \A i \in Inst : ringRot[i].x = 0 /\ ringRot[i].y = 0

C10_SingleWriter == []C10_RingAxis /\ [][C10_Step]_vars

\* both writers have acted on the same instance
C10_Witness ==
  /\ mounted[1] /\ frames[1] >= 1 /\ nMoves >= 1
  /\ ringRot[1].z > 0 /\ lensRot[1].x # 0
  /\ pointer[1].y # 0
====
